---- MODULE Spec2Model ----
(***************************************************************************)
(* cideMOD particle solver with explicit (weak) micro-macro coupling:      *)
(* StandardParticleIntercalation of models/particle_models/                *)
(* explicit_coupling.py.  The object keeps three generations of the        *)
(* particle state (c_s__1_db, c_s_0_db, c_s_1_db), the broadcast arrays    *)
(* of the macroscale (db_c_e, db_phi, db_T), the three dolfin Constants    *)
(* the weak forms read (c_e, phi, T) and one pair of mixed functions       *)
(* (u_0, u_1) per active material.                                         *)
(*                                                                         *)
(* Numbers.  Concentrations and broadcast scalars are integers 0..MaxC.    *)
(* Python indices are 0-based, the model's are 1-based: macro-node         *)
(* super_dof = k of the code is node k+1 here.  A vector of the mixed      *)
(* space W (P1 x R) has the N_s+1 concentration dofs and one multiplier    *)
(* dof; the data bases store whole W vectors (len(self.dofs)).             *)
(*                                                                         *)
(* The degradation models of models/degradation/equations.py (LAM, SEI     *)
(* and SEI.SpectralLagrangeModel_EC) are objects of their own; each has    *)
(* its own specification (SpecLAM, SpecSEI) in which the particle solver   *)
(* is at rest, and they are at rest in Spec and SpecPairs.  A real number  *)
(* that is not an integer is a record [num, den], the fraction num/den.    *)
(*                                                                         *)
(* Warehouse of helpers/warehouse.py, the store of results, has the        *)
(* specification SpecWarehouse.  Times are integers 0..MaxTime; a delay    *)
(* is an integer or a list of storage times, kept as the set of its        *)
(* entries (the code asks only for membership and any()).                  *)
(***************************************************************************)
EXTENDS Integers, Sequences, FiniteSets, TLC

\* ------------------------------------------------------------ bounds
NumNodes == 2
NumMats == 2
N_s == 1
MaxC == 1
MaxOps == 4
MaxNu == 2
MaxTau == 2
MaxBeta == 2
MaxM == 2
MaxCrit == 2
MaxDt == 2
MaxOrder == 2
MaxExp == 2
MaxSteps == 2
MaxTime == 1
MaxDelay == 2
MaxList == 1
MaxCalls == 3
MaxSets == 1

Nodes == 1..NumNodes
Mats == 1..NumMats
NDofs == N_s + 2
Dofs == 1..NDofs
\* dofs of sub(0), the concentration: 1 is r = 0, SurfDof is r = 1
CsDofs == 1..(N_s + 1)
SurfDof == N_s + 1
LmDof == N_s + 2
Val == 0..MaxC
K == MaxC + 1

VARIABLES
    c_s_0_db,    \* previous generation
    c_s_1_db,    \* current generation
    c_s__1_db,   \* previous-previous generation
    db_c_e, db_phi, db_T,   \* broadcast arrays, as last supplied
    c_e, phi, T,            \* the Constants of the weak forms
    u_0, u_1,               \* per material: previous-step and unknown function
    last,        \* history: the last call, its argument and error, the generations before it
    calls,       \* history: the solver calls of the last solve(), in order
    ref,         \* history: prev/prevprev, the fields committed by the last two
                 \* advances (or the initial fill); snap0/snap_1, the two older
                 \* generations as the last advance or initial_guess left them;
                 \* fill, the value per material of the last accepted initial_guess
    run,         \* history: calls since the last accepted initial_guess()
    ops,         \* number of calls so far
    pc, result, order, interleaved,  \* per-pair execution of the loop body
    LAM,             \* LAM.LAM: the electrode's parameters [model, beta, m]
    active_material, \* the electrode's materials [omega, young, poisson, critical_stress]
    c_s_r_average,   \* per material and macro-node: the particle-average concentration
    c_s_surf_1,      \* per material and macro-node: the surface concentration
    delta_t,         \* problem.DT.delta_t
    delta_eps_s,     \* LAM.delta_eps_s at the fields above, per material and node
    sei,             \* the SEI object: [status, order, n_mat, SEI]
    SLagM,           \* its SpectralLagrangeModel_EC: [D, K1, K2, P, K]
    f_0, f_1,        \* the problem's SEI fields, previous and unknown: [j_sei, delta_sei, c_EC]
    F_SEI,           \* the residuals the last equations() call returned
    sei_hist,        \* history: the last call and its error, the matrices as built,
                     \* whether initial_guess ran, whether a j_sei solved since was > 0,
                     \* the number of solves
    wh,              \* the Warehouse: [save_path, delay, counter, globals_declared,
                     \* fields_declared]
    wh_out,          \* what it stored: [time, internals, post]
    wh_hist          \* history: the number of store() calls, the last one's arguments,
                     \* error and effect, and what held of all of them

dbVars == <<c_s_0_db, c_s_1_db, c_s__1_db>>
bcVars == <<db_c_e, db_phi, db_T>>
workVars == <<c_e, phi, T, u_0, u_1>>
histVars == <<last, calls, ref, run, ops>>
pairVars == <<pc, result, order, interleaved>>
lamVars == <<LAM, active_material, c_s_r_average, c_s_surf_1, delta_t, delta_eps_s>>
seiVars == <<sei, SLagM, f_0, f_1, F_SEI, sei_hist>>
degVars == <<lamVars, seiVars>>
whVars == <<wh, wh_out, wh_hist>>
vars == <<dbVars, bcVars, workVars, histVars, pairVars, degVars, whVars>>

\* ------------------------------------------------------------ helpers
Vec(v) == [d \in Dofs |-> v]
Field(v) == [n \in Nodes |-> [m \in Mats |-> Vec(v)]]
ConstArr(len, v) == [i \in 1..len |-> v]
Ramp(len, k) == [i \in 1..len |-> (i + k) % K]

RECURSIVE SumTo(_, _)
SumTo(f, n) == IF n = 0 THEN 0 ELSE f[n] + SumTo(f, n - 1)

Generations == [c0 |-> c_s_0_db, c1 |-> c_s_1_db, c_1 |-> c_s__1_db]
Work == [c_e |-> c_e, phi |-> phi, T |-> T, u_0 |-> u_0, u_1 |-> u_1]
\* the working state right after __init__: Constant(1), Function(W) = 0
Work0 ==
    [c_e |-> 1, phi |-> 1, T |-> 1,
     u_0 |-> [m \in Mats |-> Vec(0)], u_1 |-> [m \in Mats |-> Vec(0)]]

\* material.c_s_ini, the configured initial concentration of material m
material_c_s_ini(m) == (m - 1) % K

\* ------------------------------------------------------------ initial_guess
\* an element of the list is a record [kind, val]: a python float, a dolfin
\* Constant (its values()[0] is taken), or anything else (kind "int")
\* a fill that forgets the previous-previous generation
FillMaterialTwoGenerations(g, i, c) ==
    LET fill(db) == [n \in Nodes |-> [m \in Mats |-> IF m = i THEN Vec(c) ELSE db[n][m]]]
    IN [c0 |-> fill(g.c0), c1 |-> fill(g.c1), c_1 |-> g.c_1]

\* a fill that leaves the current generation as it was
FillMaterialPreviousOnly(g, i, c) ==
    LET fill(db) == [n \in Nodes |-> [m \in Mats |-> IF m = i THEN Vec(c) ELSE db[n][m]]]
    IN [c0 |-> fill(g.c0), c1 |-> g.c1, c_1 |-> fill(g.c_1)]

FillMaterial(g, i, c) ==
    LET fill(db) == [n \in Nodes |-> [m \in Mats |-> IF m = i THEN Vec(c) ELSE db[n][m]]]
    IN [c0 |-> fill(g.c0), c1 |-> fill(g.c1), c_1 |-> fill(g.c_1)]

RECURSIVE FillLoop(_, _, _)
FillLoop(g, lst, i) ==
    IF i > Len(lst) THEN [g |-> g, err |-> "none"]
    ELSE IF lst[i].kind \notin {"float", "Constant"}
         THEN [g |-> g, err |-> "AssertionError"]
         ELSE FillLoop(FillMaterial(g, i, lst[i].val), lst, i + 1)

DefaultList == [m \in Mats |-> [kind |-> "float", val |-> material_c_s_ini(m)]]

\* the value each material is filled with by an accepted list
FillValues(c_s_ini) ==
    [m \in Mats |-> (IF c_s_ini = <<>> THEN DefaultList ELSE c_s_ini)[m].val]

initial_guess_result(g, c_s_ini) ==
    IF c_s_ini # <<>> /\ Len(c_s_ini) # NumMats
    THEN [g |-> g, err |-> "AssertionError"]
    ELSE FillLoop(g, IF c_s_ini = <<>> THEN DefaultList ELSE c_s_ini, 1)

\* ------------------------------------------------------------ microscale_update
\* the arrays are stored as given: no length is looked at
microscale_update_result(a_c_e, a_phi, a_T) ==
    [db_c_e |-> a_c_e, db_phi |-> a_phi, db_T |-> a_T]

\* ------------------------------------------------------------ _update_constants
\* three indexed reads in order; an index past the end of an array raises
\* IndexError after the Constants before it were assigned
\* the Constants always taken from the first macro-node
update_constants_first_node(w, n) ==
    IF n > Len(db_c_e) \/ n > Len(db_phi) \/ n > Len(db_T)
    THEN [w |-> w, err |-> "IndexError"]
    ELSE [w |-> [w EXCEPT !.c_e = db_c_e[1], !.phi = db_phi[1], !.T = db_T[1]],
          err |-> "none"]

update_constants(w, n) ==
    IF n > Len(db_c_e) THEN [w |-> w, err |-> "IndexError"]
    ELSE LET w1 == [w EXCEPT !.c_e = db_c_e[n]] IN
         IF n > Len(db_phi) THEN [w |-> w1, err |-> "IndexError"]
         ELSE LET w2 == [w1 EXCEPT !.phi = db_phi[n]] IN
              IF n > Len(db_T) THEN [w |-> w2, err |-> "IndexError"]
              ELSE [w |-> [w2 EXCEPT !.T = db_T[n]], err |-> "none"]

\* ------------------------------------------------------------ the particle solve
\* j_Li at the surface: a function of the Constants and of the material
ReactionFlux(m, ce, ph, t) == (ce + ph * t + m) % K

\* The converged solution of material m's problem F(u_1; u_0, c_e, phi, T) = 0.
\* The solver is dolfin's; its root is represented by a deterministic
\* function of exactly the data the residual reads: the concentration part of
\* u_0 (c_s_0), the three Constants and the material.  The surface dof takes
\* the reaction flux, an inner dof its outer neighbour's previous value, and
\* the multiplier equals the normalised surface concentration.  The starting
\* iterate (guess) does not move a converged root.
\* a solution that moves with the multiplier the solver starts from
NewtonSolveFromGuess(m, ce, ph, t, u0, guess) ==
    LET surf == (u0[SurfDof] + ReactionFlux(m, ce, ph, t) + guess[LmDof]) % K
    IN [d \in Dofs |->
           IF d = SurfDof \/ d = LmDof THEN surf ELSE u0[d + 1]]

NewtonSolve(m, ce, ph, t, u0, guess) ==
    LET surf == (u0[SurfDof] + ReactionFlux(m, ce, ph, t)) % K
    IN [d \in Dofs |->
           IF d = SurfDof \/ d = LmDof THEN surf ELSE u0[d + 1]]

\* lines 154-155: u_0[mat] takes the whole stored vector; assign() copies
\* sub(0), the concentration, into u_1[mat] and leaves its multiplier dof
LoadFromDb(w, n, m) ==
    LET u0 == [w.u_0 EXCEPT ![m] = c_s_0_db[n][m]]
        u1 == [w.u_1 EXCEPT ![m] =
                  [d \in Dofs |-> IF d \in CsDofs THEN u0[m][d] ELSE w.u_1[m][d]]]
    IN [w EXCEPT !.u_0 = u0, !.u_1 = u1]

\* result[super_dof,mat,:] = ...: result is numpy.empty, so only the slots
\* written so far hold a value; it is the function from those slots
Written(res, n, m, v) ==
    [p \in (DOMAIN res) \cup {<<n, m>>} |-> IF p = <<n, m>> THEN v ELSE res[p]]

\* lines 153-158 for one (node, material); the failAt-th solver call of this
\* solve() does not converge and raises
solve_pair(st, n, m, failAt) ==
    LET w1 == LoadFromDb(st.w, n, m)
        ok == (Len(st.calls) + 1) # failAt
        out == IF ok THEN NewtonSolve(m, w1.c_e, w1.phi, w1.T, w1.u_0[m], w1.u_1[m])
               ELSE w1.u_1[m]
        call == [node |-> n, mat |-> m, c_e |-> w1.c_e, phi |-> w1.phi, T |-> w1.T,
                 u_0 |-> w1.u_0[m], guess |-> w1.u_1[m], ok |-> ok, out |-> out]
    IN [w |-> [w1 EXCEPT !.u_1[m] = out],
        result |-> IF ok THEN Written(st.result, n, m, out) ELSE st.result,
        calls |-> Append(st.calls, call),
        err |-> IF ok THEN "none" ELSE "RuntimeError"]

RECURSIVE mat_loop(_, _, _, _)
mat_loop(st, n, m, failAt) ==
    IF m > NumMats \/ st.err # "none" THEN st
    ELSE mat_loop(solve_pair(st, n, m, failAt), n, m + 1, failAt)

RECURSIVE node_loop(_, _, _)
node_loop(st, n, failAt) ==
    IF n > NumNodes \/ st.err # "none" THEN st
    ELSE LET u == update_constants(st.w, n)
         IN IF u.err # "none" THEN [st EXCEPT !.w = u.w, !.err = u.err]
            ELSE node_loop(mat_loop([st EXCEPT !.w = u.w], n, 1, failAt), n + 1, failAt)

\* _solve: result = numpy.empty(...) has no slot written at the start
solve_loop(w, failAt) ==
    node_loop([w |-> w, result |-> <<>>, calls |-> <<>>, err |-> "none"], 1, failAt)

\* solve, line 162: the copy into the current generation runs only when
\* _solve returned
\* the loop writing straight into the current generation: what was solved
\* before a failure stays written
solve_commit_in_place(r) ==
    [n \in Nodes |-> [m \in Mats |->
        IF <<n, m>> \in DOMAIN r.result THEN r.result[<<n, m>>] ELSE c_s_1_db[n][m]]]

solve_commit(r) ==
    IF r.err = "none" THEN [n \in Nodes |-> [m \in Mats |-> r.result[<<n, m>>]]]
    ELSE c_s_1_db

\* the generations after solve(): c_s_1_db is the only array assigned
\* the result assigned to the previous generation as well
solve_generations_into_previous(g, r) ==
    [g EXCEPT !.c1 = solve_commit(r), !.c0 = solve_commit(r)]

solve_generations(g, r) == [g EXCEPT !.c1 = solve_commit(r)]

\* ------------------------------------------------------------ advance_problem
\* the two copies in the other order: previous-previous takes the new previous
advance_problem_swapped(g) ==
    [c0 |-> g.c1, c_1 |-> g.c1, c1 |-> g.c1]

advance_problem_result(g) ==
    [c_1 |-> g.c0, c0 |-> g.c1, c1 |-> g.c1]

\* ------------------------------------------------------------ accessors
c_s_surf == [n \in Nodes |-> [m \in Mats |-> c_s_1_db[n][m][SurfDof]]]

\* c.sum()/c.size - material.c_s_ini as the fraction num/den
get_average_c_s(increment) ==
    [n \in Nodes |-> [m \in Mats |->
        [num |-> SumTo(c_s_1_db[n][m], NDofs)
                 - (IF increment THEN NDofs * material_c_s_ini(m) ELSE 0),
         den |-> NDofs]]]

Entries == Nodes \X Mats \X Dofs

\* entry e of nu*(1/(1+tau)*c_s_1_db - c_s_0_db + tau/(1+tau)*c_s__1_db), as
\* its numerator over the denominator 1+tau
\* the weights on the wrong generations: 1/(1+tau) on the previous one, the
\* current one subtracted
FilterEntryPreviousWeighted(nu, tau, e) ==
    nu * (c_s_0_db[e[1]][e[2]][e[3]] - (1 + tau) * c_s_1_db[e[1]][e[2]][e[3]]
          + tau * c_s__1_db[e[1]][e[2]][e[3]])

FilterEntry(nu, tau, e) ==
    nu * (c_s_1_db[e[1]][e[2]][e[3]] - (1 + tau) * c_s_0_db[e[1]][e[2]][e[3]]
          + tau * c_s__1_db[e[1]][e[2]][e[3]])

\* the sum of the squares of the entries of f over S
RECURSIVE SumSq(_, _)
SumSq(f, S) ==
    IF S = {} THEN 0
    ELSE LET e == CHOOSE x \in S : TRUE
         IN f[e] * f[e] + SumSq(f, S \ {e})

\* numpy.linalg.norm(error) = sqrt(sq)/den
\* the previous-previous term left out
get_time_filter_error_two_levels(nu, tau) ==
    [sq |-> SumSq([e \in Entries |->
                     nu * (c_s_1_db[e[1]][e[2]][e[3]]
                           - (1 + tau) * c_s_0_db[e[1]][e[2]][e[3]])], Entries),
     den |-> 1 + tau]

get_time_filter_error(nu, tau) ==
    [sq |-> SumSq([e \in Entries |-> FilterEntry(nu, tau, e)], Entries), den |-> 1 + tau]

\* Li_amount, lines 172-178: for every macro-node in turn, every material's
\* u_1 takes the node's slice of the current generation (sub(0).vector() is
\* the vector of the whole mixed function) and is integrated; the functions
\* are left holding the last node's slices.  Line 179 computes the integral
\* over the nodes and drops it: the call returns None.
Li_amount_result(w) ==
    [w EXCEPT !.u_1 = [m \in Mats |-> c_s_1_db[NumNodes][m]]]

\* ------------------------------------------------------------ inputs
FloatElems == [kind : {"float"}, val : Val]
ConstantElem == [kind |-> "Constant", val |-> MaxC]
IntElem == [kind |-> "int", val |-> 0]

\* a float below the physical range
NegativeElem == [kind |-> "float", val |-> -1]

\* no list (the materials' defaults), every list of floats of the right
\* length, a list of Constants, a list with one element that is no float at
\* each place, lists one too short and one too long, and a list of negative
\* floats
InitialLists ==
    {<<>>} \cup [1..NumMats -> FloatElems]
    \cup {ConstArr(NumMats, ConstantElem)}
    \cup {[m \in 1..NumMats |-> IF m = i THEN IntElem ELSE [kind |-> "float", val |-> MaxC]] :
             i \in Mats}
    \cup {ConstArr(l, [kind |-> "float", val |-> MaxC]) :
             l \in {NumMats - 1, NumMats + 1} \ {0}}
    \cup {ConstArr(NumMats, NegativeElem)}

\* the lengths of the three arrays: one entry per macro-node, one of them an
\* entry short, or all an entry long
LenCombos ==
    {<<NumNodes, NumNodes, NumNodes>>, <<NumNodes - 1, NumNodes, NumNodes>>,
     <<NumNodes, NumNodes - 1, NumNodes>>, <<NumNodes, NumNodes, NumNodes - 1>>,
     <<NumNodes + 1, NumNodes + 1, NumNodes + 1>>}

Broadcasts ==
    {[c_e |-> Ramp(l[1], k), phi |-> Ramp(l[2], 0), T |-> ConstArr(l[3], k)] :
        l \in LenCombos, k \in 0..1}

\* the filter parameters a caller passes
Nus == 0..MaxNu
Taus == 0..MaxTau

NumPairs == NumNodes * NumMats
Pairs == Nodes \X Mats

\* ------------------------------------------------------------ LAM
Frac(n, d) == [num |-> n, den |-> d]

\* x ** n for an integer n >= 0, as python, UFL and C's pow compute it:
\* x ** 0 is 1 for every x, 0 included
RECURSIVE Pow(_, _)
Pow(x, n) == IF n = 0 THEN 1 ELSE x * Pow(x, n - 1)

\* gt(x, 0) for a fraction x
IsPositive(x) == x.num * x.den > 0

\* hydrostatic_stress at one point:
\* 2/9*am.omega*am.young/(1-am.poisson)*(3*c_s_r_average - c_s)
hydrostatic_stress_at(am, c_avg, c_s) ==
    Frac(2 * am.omega * am.young * am.poisson.den * (3 * c_avg - c_s),
         9 * (am.poisson.den - am.poisson.num))

hydrostatic_stress(ams, avg, surf) ==
    [i \in DOMAIN ams |-> [n \in Nodes |-> hydrostatic_stress_at(ams[i], avg[i][n], surf[i][n])]]

\* eps_s_variation at one point: value = 0, and for the 'stress' model
\* value -= delta_t*beta*(sigma_h_am/critical_stress)**m, where sigma_h_am is
\* conditional(gt(sigma_h, 0), sigma_h, Constant(0.))
eps_s_variation_at(lam, am, sigma, dt) ==
    IF lam.model = "stress"
    THEN LET sigma_h_am == IF IsPositive(sigma) THEN sigma ELSE Frac(0, 1)
         IN Frac(0 - dt * lam.beta * Pow(sigma_h_am.num, lam.m),
                 Pow(sigma_h_am.den * am.critical_stress, lam.m))
    ELSE Frac(0, 1)

eps_s_variation(lam, ams, sigma_h, dt) ==
    [i \in DOMAIN ams |-> [n \in Nodes |-> eps_s_variation_at(lam, ams[i], sigma_h[i][n], dt)]]

\* the parameters of the electrode: LAM.model is 'stress' or not, beta and
\* the exponent m are numbers (m an integer >= 0 here)
LAMParams == [model : {"stress", "off"}, beta : 1..MaxBeta, m : 0..MaxM]

\* the materials of the electrode, alike but for the critical stress
Materials ==
    {[i \in Mats |-> [omega |-> 1, young |-> 1, poisson |-> Frac(1, 2),
                      critical_stress |-> c]] : c \in 1..MaxCrit}

ZeroFunctions == [i \in Mats |-> [n \in Nodes |-> 0]]

\* the fields at a time: any average per material and node, a surface
\* concentration, a time step
LAMFields ==
    [avg : [Mats -> [Nodes -> Val]], surf : {[i \in Mats |-> [n \in Nodes |-> v]] : v \in Val},
     dt : 1..MaxDt]

\* no LAM object
LAMAtRest ==
    /\ LAM = [model |-> "off", beta |-> 0, m |-> 0]
    /\ active_material = <<>>
    /\ c_s_r_average = <<>> /\ c_s_surf_1 = <<>>
    /\ delta_t = 0
    /\ delta_eps_s = <<>>

\* ------------------------------------------------------------ SEI: the spectral operators
\* A polynomial is the sequence of its coefficients, lowest degree first
\* (numpy.polynomial.polynomial); polymul, polyder, polyval at 0 and at 1,
\* and the value at 1 of polyint, times an integer every divisor divides.
PolyMul(p, q) ==
    [k \in 1..(Len(p) + Len(q) - 1) |->
        SumTo([i \in 1..Len(p) |->
                  IF (k - i + 1) \in 1..Len(q) THEN p[i] * q[k - i + 1] ELSE 0], Len(p))]

PolyDer(p) == IF Len(p) <= 1 THEN <<0>> ELSE [n \in 1..(Len(p) - 1) |-> n * p[n + 1]]
PolyTimesX(p) == <<0>> \o p
PolyValAt0(p) == p[1]
PolyValAt1(p) == SumTo(p, Len(p))
PolyIntAt1(p, scale) == SumTo([n \in 1..Len(p) |-> p[n] * (scale \div n)], Len(p))

RECURSIVE Factorial(_)
Factorial(n) == IF n <= 0 THEN 1 ELSE n * Factorial(n - 1)

\* Lagrange(order): the nodal polynomials of order+1 equally spaced points
\* of [0, 1].  The i-th one is LagrangeNum(k, i)/LagrangeDen(k, i), the
\* product over the other points j of (k*x - j)/(i - j).
RECURSIVE LagrangeNumUpTo(_, _, _)
LagrangeNumUpTo(k, i, j) ==
    IF j < 0 THEN <<1>>
    ELSE IF j = i THEN LagrangeNumUpTo(k, i, j - 1)
         ELSE PolyMul(LagrangeNumUpTo(k, i, j - 1), <<0 - j, k>>)

LagrangeNum(k, i) == LagrangeNumUpTo(k, i, k)

RECURSIVE LagrangeDenUpTo(_, _)
LagrangeDenUpTo(i, j) ==
    IF j < 0 THEN 1
    ELSE IF j = i THEN LagrangeDenUpTo(i, j - 1)
         ELSE (i - j) * LagrangeDenUpTo(i, j - 1)

LagrangeDen(k, i) == LagrangeDenUpTo(i, k)

\* poly.f, poly.df, poly.xdf: the numerators over LagrangeDen
poly_f(k, i) == LagrangeNum(k, i)
poly_df(k, i) == PolyDer(LagrangeNum(k, i))
poly_xdf(k, i) == PolyTimesX(PolyDer(LagrangeNum(k, i)))

\* M[:, 0:-1]: every row without its last entry
WithoutLastColumn(M) == [i \in 1..Len(M) |-> SubSeq(M[i], 1, Len(M[i]) - 1)]
\* the slice taken along the other axis: the last row dropped
WithoutLastRow(M) == SubSeq(M, 1, Len(M) - 1)

\* build_matrix for order k >= -1: the square matrices J, H, K, L, M, N of
\* size k+1 and the vector P, then D, K1 = L - M + J and K2 = N - H without
\* the last column.  Row i+1, column j+1 here is [i, j] of the code; an
\* entry is a fraction over EntryDen.
EntryScale(k) == Factorial(2 * k + 1)
EntryDen(k, i, j) == EntryScale(k) * LagrangeDen(k, i) * LagrangeDen(k, j)

\* the entries [i, j] of J, H, K, L, M, N as numerators over EntryDen
J_entry(k, i, j) == EntryScale(k) * PolyValAt0(PolyMul(poly_f(k, i), poly_f(k, j)))
H_entry(k, i, j) == EntryScale(k) * PolyValAt1(PolyMul(poly_df(k, i), poly_f(k, j)))
K_entry(k, i, j) == PolyIntAt1(PolyMul(poly_f(k, i), poly_f(k, j)), EntryScale(k))
L_entry(k, i, j) == PolyIntAt1(PolyMul(poly_df(k, i), poly_f(k, j)), EntryScale(k))
M_entry(k, i, j) == PolyIntAt1(PolyMul(poly_xdf(k, i), poly_f(k, j)), EntryScale(k))
N_entry(k, i, j) == PolyIntAt1(PolyMul(poly_df(k, i), poly_df(k, j)), EntryScale(k))

\* K, L - M + J and N - H as square matrices of size k+1, and the vector P
SquareMatrices(k) ==
    LET Square(which) ==
            [r \in 1..(k + 1) |-> [c \in 1..(k + 1) |->
                LET i == r - 1
                    j == c - 1
                    num == CASE which = "D" -> K_entry(k, i, j)
                             [] which = "K1" -> L_entry(k, i, j) - M_entry(k, i, j)
                                                  + J_entry(k, i, j)
                             [] OTHER -> N_entry(k, i, j) - H_entry(k, i, j)
                IN Frac(num, EntryDen(k, i, j))]]
    IN [D |-> Square("D"), K1 |-> Square("K1"), K2 |-> Square("K2"),
        P |-> [r \in 1..(k + 1) |->
                  Frac(PolyValAt0(poly_f(k, r - 1)), LagrangeDen(k, r - 1))]]

build_matrix_sliced_rows(k) ==
    LET Sq == SquareMatrices(k)
    IN [D |-> WithoutLastRow(Sq.D), K1 |-> WithoutLastRow(Sq.K1),
        K2 |-> WithoutLastRow(Sq.K2), P |-> Sq.P]

build_matrix(k) ==
    LET Sq == SquareMatrices(k)
    IN [D |-> WithoutLastColumn(Sq.D), K1 |-> WithoutLastColumn(Sq.K1),
        K2 |-> WithoutLastColumn(Sq.K2), P |-> Sq.P]

\* ------------------------------------------------------------ SEI: the object
NoSEI == [k_f_s |-> 0, M |-> 0, rho |-> 0, delta0 |-> 0, c_EC_sln |-> 0, eps |-> 0]
\* electrode.SEI: the rate constant, the molar mass and density of the film,
\* the initial thickness, the solvent concentration and the porosity
SEIParams ==
    {[k_f_s |-> 1, M |-> 1, rho |-> 1, delta0 |-> d, c_EC_sln |-> 1, eps |-> 1] :
        d \in {0, MaxC}}

NoMatrices ==
    [D |-> <<>>, K1 |-> <<>>, K2 |-> <<>>, P |-> <<>>, K |-> [set |-> FALSE, material |-> 0]]
NoFields == [j_sei |-> <<>>, delta_sei |-> <<>>, c_EC |-> <<>>]
NoResiduals == [built |-> FALSE, DT |-> 0, F |-> 0, delta |-> "none", c_EC |-> "none"]

SEIAtRest ==
    /\ sei = [status |-> "absent", order |-> 0, n_mat |-> 0, SEI |-> NoSEI]
    /\ SLagM = NoMatrices
    /\ f_0 = NoFields /\ f_1 = NoFields
    /\ F_SEI = NoResiduals
    /\ sei_hist = [op |-> "none", err |-> "none", built |-> NoMatrices,
                   guessed |-> FALSE, jpos |-> FALSE, steps |-> 0]

DegradationAtRest == LAMAtRest /\ SEIAtRest

\* fields(): the names of j_sei and delta_sei per material, then of the
\* solvent modes c_EC_<mode>_<material>, material by material;
\* range(self.order) is empty for an order k <= 0
NumModes(k) == IF k > 0 THEN k ELSE 0

fields_result(k, n_mat) ==
    [t \in 1..n_mat |-> [name |-> "j_sei", material |-> t - 1, mode |-> 0]]
    \o [t \in 1..n_mat |-> [name |-> "delta_sei", material |-> t - 1, mode |-> 0]]
    \o [t \in 1..(n_mat * NumModes(k)) |->
           [name |-> "c_EC", material |-> (t - 1) \div k, mode |-> (t - 1) % k]]

\* f_0._fields.index('c_EC_0_<domain><material>'): ValueError when there is
\* no such field
HasMode0(k, n_mat, material) ==
    \E t \in 1..Len(fields_result(k, n_mat)) :
        fields_result(k, n_mat)[t] = [name |-> "c_EC", material |-> material, mode |-> 0]

\* the functions of the problem for these fields, zero when created
ZeroFields(k, n_mat) ==
    [j_sei |-> [m \in 1..n_mat |-> [n \in Nodes |-> 0]],
     delta_sei |-> [m \in 1..n_mat |-> [n \in Nodes |-> Frac(0, 2)]],
     c_EC |-> [m \in 1..n_mat |-> [j \in 1..NumModes(k) |-> [n \in Nodes |-> 0]]]]

\* SpectralLagrangeModel_EC.__init__: numpy.zeros((order+1, order+1)) raises
\* ValueError for order < -1; for order = -1 every matrix is empty
SpectralLagrangeModel_EC(k) ==
    IF k < 0 - 1 THEN [err |-> "ValueError", S |-> NoMatrices]
    ELSE LET b == build_matrix(k)
         IN [err |-> "none",
             S |-> [D |-> b.D, K1 |-> b.K1, K2 |-> b.K2, P |-> b.P,
                    K |-> [set |-> FALSE, material |-> 0]]]

\* SEI.initial_guess(f_0): every solvent mode of every material takes
\* c_EC_sln*eps, the thickness takes delta0 (kept as a fraction over 2*F*rho,
\* F = 1); the index lookup of the first material raises when order <= 0
sei_initial_guess(o, f) ==
    IF o.n_mat = 0 THEN [err |-> "none", f |-> f]
    ELSE IF ~HasMode0(o.order, o.n_mat, 0) THEN [err |-> "ValueError", f |-> f]
    ELSE [err |-> "none",
          f |-> [f EXCEPT
                   !.c_EC = [m \in 1..o.n_mat |-> [j \in 1..o.order |->
                                [n \in Nodes |-> o.SEI.c_EC_sln * o.SEI.eps]]],
                   !.delta_sei = [m \in 1..o.n_mat |-> [n \in Nodes |->
                                     Frac(o.SEI.delta0 * 2 * o.SEI.rho, 2 * o.SEI.rho)]]]]

\* wf, line 287: self.K is assigned for every material in turn, an
\* expression of that material's thickness, K1 and K2; D, K1, K2 and P are
\* read
\* K1 overwritten on the way
wf_assign_K1(S, n_mat) ==
    [S EXCEPT !.K1 = S.K2, !.K = [set |-> TRUE, material |-> n_mat - 1]]

wf_assign(S, n_mat) == [S EXCEPT !.K = [set |-> TRUE, material |-> n_mat - 1]]

\* equations(f_0, f_1, test, dx, F, R, DT): DT is 0 for None, else the time
\* step.  Per material the lookups of the field indices (ValueError when
\* order <= 0), the j_SEI residual and the delta_growth residual; then wf
\* with a time-stepper, wf_0 without.
equations(o, S, F, DT) ==
    IF o.n_mat > 0 /\ ~HasMode0(o.order, o.n_mat, 0)
    THEN [err |-> "ValueError", F_SEI |-> NoResiduals, S |-> S]
    ELSE [err |-> "none",
          F_SEI |-> [built |-> TRUE, DT |-> DT, F |-> F,
                     delta |-> IF DT # 0 THEN "growth" ELSE "identity",
                     c_EC |-> IF DT # 0 THEN "wf" ELSE "wf_0"],
          S |-> IF DT # 0 /\ o.n_mat > 0 THEN wf_assign(S, o.n_mat) ELSE S]

\* the root of the j_SEI residual at a point:
\* j_SEI = -i_0s*exp(-(beta*F/R)*eta/T), i_0s = F*c_EC_0*k_f_s; e stands for
\* the exponential, a positive number
j_SEI_solution(SEI, F, c_EC_0, e) == 0 - (F * c_EC_0 * SEI.k_f_s) * e

\* the time-stepper (implicit Euler): DT.dt(y_0, y) = (y - y_0)/delta_t, so
\* the root y of DT.dt(y_0, y) + rate = 0 is y_0 - delta_t*rate; y_0 and rate
\* are numerators over one denominator
ImplicitEulerRoot(DT, y_0, rate) == y_0 - DT * rate

\* the root delta_1 of the delta_growth residual at a point, the thickness a
\* fraction over 2*F*rho.  With a time-stepper
\* DT.dt(delta_0, delta_1) + j_SEI*M/(2*F*rho) = 0; without,
\* delta_0 - delta_1 = 0.
\* the growth law with the other sign
delta_growth_solution_plus(DT, delta_0, j, SEI) ==
    IF DT # 0 THEN Frac(ImplicitEulerRoot(DT, delta_0.num, 0 - j * SEI.M), delta_0.den)
    ELSE delta_0

\* the growth residual taken with or without a time-stepper
delta_growth_solution_always(DT, delta_0, j, SEI) ==
    Frac(ImplicitEulerRoot(IF DT # 0 THEN DT ELSE 1, delta_0.num, j * SEI.M), delta_0.den)

delta_growth_solution(DT, delta_0, j, SEI) ==
    IF DT # 0 THEN Frac(ImplicitEulerRoot(DT, delta_0.num, j * SEI.M), delta_0.den)
    ELSE delta_0

\* what wf's system gives for the solvent modes: the code puts no bound on
\* it; the values drawn are the same for every material and mode, from a at
\* the first macro-node up by one per node
ModeProfile(o, a) ==
    [m \in 1..o.n_mat |-> [j \in 1..NumModes(o.order) |-> [n \in Nodes |-> a + (n - 1)]]]

\* the solution f_1 of the residuals R for the previous fields f
sei_solve(o, R, f, modes, e) ==
    LET c_EC == IF R.c_EC = "wf_0" THEN f.c_EC ELSE modes
        j_sei == [m \in 1..o.n_mat |-> [n \in Nodes |->
                     j_SEI_solution(o.SEI, R.F, c_EC[m][1][n], e)]]
    IN [j_sei |-> j_sei,
        delta_sei |-> [m \in 1..o.n_mat |-> [n \in Nodes |->
                          delta_growth_solution(R.DT, f.delta_sei[m][n], j_sei[m][n], o.SEI)]],
        c_EC |-> c_EC]

\* ------------------------------------------------------------ Warehouse: the object
Times == 0..MaxTime

\* the delay given to __init__ or set_delay: an integer of any sign, or a
\* list of storage times
IntDelays == {[kind |-> "int", n |-> d, times |-> {}] : d \in (0 - 1)..MaxDelay}
ListDelays ==
    {[kind |-> "list", n |-> 0, times |-> S] :
        S \in {X \in SUBSET Times : Cardinality(X) <= MaxList}}
Delays == IntDelays \cup ListDelays

\* Warehouse(save_path, problem, delay): the counter is 0, no global
\* variable is declared (global_var_arrays = []) and field_vars does not
\* exist yet.  save_path is TRUE for a path, FALSE for None.
Warehouse(save_path, delay) ==
    [save_path |-> save_path, delay |-> delay, counter |-> 0,
     globals_declared |-> FALSE, fields_declared |-> FALSE]

NothingStored == [time |-> <<>>, internals |-> <<>>, post |-> 0]

\* time in self.delay or any(k < time and k > self.counter for k in self.delay)
list_delay_due(delay, counter, time) ==
    \/ time \in delay.times
    \/ \E k \in delay.times : k < time /\ k > counter

\* the test taken with the counter as it was before the increment
integer_delay_due_late(delay, counter, force) == counter > delay.n \/ force

\* self.counter >= self.delay or force
integer_delay_due(delay, counter, force) == counter >= delay.n \/ force

\* _store_globals(time): appends to global_var_arrays[0], which is there
\* once global_variables() was called
store_globals(w, out, time) ==
    IF w.globals_declared
    THEN [err |-> "none", out |-> [out EXCEPT !.time = Append(@, time)]]
    ELSE [err |-> "IndexError", out |-> out]

\* _post_process() and _store_internals(time): the post-processing
\* functions run, then the loop over field_vars writes the fields at time
store_internals(w, out, time) ==
    IF w.fields_declared
    THEN [err |-> "none",
          out |-> [out EXCEPT !.post = @ + 1, !.internals = Append(@, time)]]
    ELSE [err |-> "AttributeError", out |-> [out EXCEPT !.post = @ + 1]]

\* store(time, force): the object and its output after the call, the error
\* it raised and whether it wrote the internal variables.  _store_2_rom
\* writes to the problem only.
store(w, out, time, force) ==
    LET g == store_globals(w, out, time)
    IN IF g.err # "none" THEN [wh |-> w, out |-> out, err |-> g.err, wrote |-> FALSE]
       ELSE IF ~w.save_path THEN [wh |-> w, out |-> g.out, err |-> "none", wrote |-> FALSE]
       ELSE IF w.delay.kind = "list"
       THEN IF list_delay_due(w.delay, w.counter, time)
            THEN LET s == store_internals(w, g.out, time)
                 IN [wh |-> IF s.err = "none" THEN [w EXCEPT !.counter = time] ELSE w,
                     out |-> s.out, err |-> s.err, wrote |-> s.err = "none"]
            ELSE [wh |-> [w EXCEPT !.counter = time], out |-> g.out,
                  err |-> "none", wrote |-> FALSE]
       ELSE IF w.delay.n >= 0
       THEN LET c == w.counter + 1
            IN IF integer_delay_due(w.delay, c, force)
               THEN LET s == store_internals(w, g.out, time)
                    IN [wh |-> [w EXCEPT !.counter = IF s.err = "none" THEN 0 ELSE c],
                        out |-> s.out, err |-> s.err, wrote |-> s.err = "none"]
               ELSE [wh |-> [w EXCEPT !.counter = c], out |-> g.out,
                     err |-> "none", wrote |-> FALSE]
       ELSE [wh |-> w, out |-> g.out, err |-> "none", wrote |-> FALSE]

\* the history of a new object.  calls counts the store() calls; time,
\* force, err, wrote and pre_len are the arguments of the last one, its
\* error, whether it wrote the internal variables and the length of the
\* time array before it; prev is the time of the store() before it (-1:
\* none).  regular: every store() returned and the delay is the one the
\* first store() found; unforced: no store() was forced; increasing: every
\* store() had a later time than the one before; reset: global_variables()
\* ran since the last store(); sets counts set_delay()
NoCalls ==
    [calls |-> 0, time |-> 0 - 1, prev |-> 0 - 1, force |-> FALSE, err |-> "none",
     wrote |-> FALSE, pre_len |-> 0, regular |-> TRUE, unforced |-> TRUE,
     increasing |-> TRUE, reset |-> FALSE, sets |-> 0]

\* the warehouse at rest: built without a path, nothing called
WarehouseAtRest ==
    /\ wh = Warehouse(FALSE, [kind |-> "int", n |-> 1, times |-> {}])
    /\ wh_out = NothingStored
    /\ wh_hist = NoCalls

\* ------------------------------------------------------------ the object's life
\* after __init__: the arrays are numpy.empty (arbitrary contents, drawn from
\* the uniform fills), the Constants are 1, the functions are 0
Init ==
    /\ \E g \in Val :
          /\ c_s_0_db = Field(g) /\ c_s_1_db = Field(g) /\ c_s__1_db = Field(g)
    /\ \E b \in Val :
          /\ db_c_e = ConstArr(NumNodes, b) /\ db_phi = ConstArr(NumNodes, b)
          /\ db_T = ConstArr(NumNodes, b)
    /\ c_e = Work0.c_e /\ phi = Work0.phi /\ T = Work0.T
    /\ u_0 = Work0.u_0 /\ u_1 = Work0.u_1
    /\ last = [op |-> "__init__", err |-> "none", pre |-> Generations, arg |-> <<>>]
    /\ calls = <<>>
    /\ ref = [prev |-> c_s_0_db, prevprev |-> c_s__1_db,
              snap0 |-> c_s_0_db, snap_1 |-> c_s__1_db, fill |-> <<>>]
    /\ run = <<>>
    /\ ops = 0
    /\ pc = [p \in Pairs |-> "idle"] /\ result = <<>>
    /\ order = <<>> /\ interleaved = FALSE
    /\ DegradationAtRest /\ WarehouseAtRest

InitialGuess ==
    /\ ops < MaxOps
    /\ \E lst \in InitialLists :
          LET r == initial_guess_result(Generations, lst)
          IN /\ c_s_0_db' = r.g.c0 /\ c_s_1_db' = r.g.c1 /\ c_s__1_db' = r.g.c_1
             /\ last' = [op |-> "initial_guess", err |-> r.err, pre |-> Generations,
                          arg |-> lst]
             /\ ref' = [prev |-> r.g.c0, prevprev |-> r.g.c_1,
                         snap0 |-> r.g.c0, snap_1 |-> r.g.c_1,
                         fill |-> IF r.err = "none" THEN FillValues(lst) ELSE <<>>]
             /\ run' = IF r.err = "none" THEN <<"initial_guess">> ELSE <<>>
    /\ calls' = <<>>
    /\ ops' = ops + 1
    /\ UNCHANGED <<bcVars, workVars, pairVars, degVars, whVars>>

MicroscaleUpdate ==
    /\ ops < MaxOps
    /\ \E b \in Broadcasts :
          LET r == microscale_update_result(b.c_e, b.phi, b.T)
          IN /\ db_c_e' = r.db_c_e /\ db_phi' = r.db_phi /\ db_T' = r.db_T
             /\ last' = [op |-> "microscale_update", err |-> "none", pre |-> Generations,
                          arg |-> b]
    /\ calls' = <<>>
    /\ ops' = ops + 1
    /\ UNCHANGED <<dbVars, workVars, ref, run, pairVars, degVars, whVars>>

Solve ==
    /\ ops < MaxOps
    /\ \E failAt \in 0..NumPairs :
          LET r == solve_loop(Work, failAt)
              g == solve_generations(Generations, r)
          IN /\ c_s_0_db' = g.c0 /\ c_s_1_db' = g.c1 /\ c_s__1_db' = g.c_1
             /\ c_e' = r.w.c_e /\ phi' = r.w.phi /\ T' = r.w.T
             /\ u_0' = r.w.u_0 /\ u_1' = r.w.u_1
             /\ calls' = r.calls
             /\ last' = [op |-> "solve", err |-> r.err, pre |-> Generations, arg |-> failAt]
             /\ run' = IF run # <<>> /\ r.err = "none" THEN Append(run, "solve") ELSE run
    /\ ops' = ops + 1
    /\ UNCHANGED <<bcVars, ref, pairVars, degVars, whVars>>

AdvanceProblem ==
    /\ ops < MaxOps
    /\ LET r == advance_problem_result(Generations)
       IN /\ c_s_0_db' = r.c0 /\ c_s_1_db' = r.c1 /\ c_s__1_db' = r.c_1
          /\ ref' = [prev |-> c_s_1_db, prevprev |-> ref.prev,
                      snap0 |-> r.c0, snap_1 |-> r.c_1, fill |-> ref.fill]
    /\ last' = [op |-> "advance_problem", err |-> "none", pre |-> Generations, arg |-> <<>>]
    /\ run' = IF run # <<>> THEN Append(run, "advance_problem") ELSE run
    /\ calls' = <<>>
    /\ ops' = ops + 1
    /\ UNCHANGED <<bcVars, workVars, pairVars, degVars, whVars>>

\* the accessors: last.arg records the value returned
CSSurf ==
    /\ ops < MaxOps
    /\ last' = [op |-> "c_s_surf", err |-> "none", pre |-> Generations, arg |-> c_s_surf]
    /\ calls' = <<>>
    /\ ops' = ops + 1
    /\ UNCHANGED <<dbVars, bcVars, workVars, ref, run, pairVars, degVars, whVars>>

GetAverageCS ==
    /\ ops < MaxOps
    /\ \E increment \in BOOLEAN :
          last' = [op |-> "get_average_c_s", err |-> "none", pre |-> Generations,
                   arg |-> get_average_c_s(increment)]
    /\ calls' = <<>>
    /\ ops' = ops + 1
    /\ UNCHANGED <<dbVars, bcVars, workVars, ref, run, pairVars, degVars, whVars>>

GetTimeFilterError ==
    /\ ops < MaxOps
    /\ \E nu \in Nus, tau \in Taus :
          last' = [op |-> "get_time_filter_error", err |-> "none", pre |-> Generations,
                   arg |-> get_time_filter_error(nu, tau)]
    /\ calls' = <<>>
    /\ ops' = ops + 1
    /\ UNCHANGED <<dbVars, bcVars, workVars, ref, run, pairVars, degVars, whVars>>

LiAmount ==
    /\ ops < MaxOps
    /\ LET w == Li_amount_result(Work)
       IN /\ c_e' = w.c_e /\ phi' = w.phi /\ T' = w.T
          /\ u_0' = w.u_0 /\ u_1' = w.u_1
    /\ last' = [op |-> "Li_amount", err |-> "none", pre |-> Generations, arg |-> <<>>]
    /\ calls' = <<>>
    /\ ops' = ops + 1
    /\ UNCHANGED <<dbVars, bcVars, ref, run, pairVars, degVars, whVars>>

Next ==
    \/ InitialGuess \/ MicroscaleUpdate \/ Solve \/ AdvanceProblem
    \/ CSSurf \/ GetAverageCS \/ GetTimeFilterError \/ LiAmount

Spec == Init /\ [][Next]_vars

\* ------------------------------------------------------------ the loop body, pair by pair
\* The body of the two loops of _solve run as one task per (node, material),
\* the tasks scheduled in any order and interleaved: a task first sets the
\* Constants for its node and loads u_0[mat] and u_1[mat] (lines 151-155),
\* then solves and writes its slot of result (lines 157-158).  The Constants
\* and the functions are the object's own, the same for every task.
\* The start is a solver after an accepted initial_guess() of floats and an
\* accepted microscale_update() with one entry per macro-node.
InitPairs ==
    /\ \E lst \in [1..NumMats -> FloatElems] :
       \E b \in {x \in Broadcasts : /\ Len(x.c_e) = NumNodes /\ Len(x.phi) = NumNodes
                                     /\ Len(x.T) = NumNodes} :
          LET g == initial_guess_result([c0 |-> Field(0), c1 |-> Field(0),
                                         c_1 |-> Field(0)], lst).g
          IN /\ c_s_0_db = g.c0 /\ c_s_1_db = g.c1 /\ c_s__1_db = g.c_1
             /\ db_c_e = b.c_e /\ db_phi = b.phi /\ db_T = b.T
             /\ last = [op |-> "microscale_update", err |-> "none", pre |-> g, arg |-> b]
             /\ ref = [prev |-> g.c0, prevprev |-> g.c_1, snap0 |-> g.c0, snap_1 |-> g.c_1,
                       fill |-> FillValues(lst)]
    /\ c_e = Work0.c_e /\ phi = Work0.phi /\ T = Work0.T
    /\ u_0 = Work0.u_0 /\ u_1 = Work0.u_1
    /\ calls = <<>> /\ run = <<"initial_guess">> /\ ops = 2
    /\ pc = [p \in Pairs |-> "idle"] /\ result = <<>>
    /\ order = <<>> /\ interleaved = FALSE
    /\ DegradationAtRest /\ WarehouseAtRest

OthersLoaded(n, m) == \E q \in Pairs : q # <<n, m>> /\ pc[q] = "loaded"

PairPrepare(n, m) ==
    /\ pc[<<n, m>>] = "idle"
    /\ LET w == LoadFromDb(update_constants(Work, n).w, n, m)
       IN /\ c_e' = w.c_e /\ phi' = w.phi /\ T' = w.T
          /\ u_0' = w.u_0 /\ u_1' = w.u_1
    /\ pc' = [pc EXCEPT ![<<n, m>>] = "loaded"]
    /\ interleaved' = (interleaved \/ OthersLoaded(n, m))
    /\ UNCHANGED <<dbVars, bcVars, histVars, result, order, degVars, whVars>>

PairSolve(n, m) ==
    /\ pc[<<n, m>>] = "loaded"
    /\ LET out == NewtonSolve(m, c_e, phi, T, u_0[m], u_1[m])
       IN /\ u_1' = [u_1 EXCEPT ![m] = out]
          /\ result' = Written(result, n, m, out)
    /\ pc' = [pc EXCEPT ![<<n, m>>] = "done"]
    /\ order' = Append(order, <<n, m>>)
    /\ UNCHANGED <<dbVars, bcVars, histVars, c_e, phi, T, u_0, interleaved, degVars, whVars>>

NextPairs == \E p \in Pairs : PairPrepare(p[1], p[2]) \/ PairSolve(p[1], p[2])

SpecPairs == InitPairs /\ [][NextPairs]_vars

\* what the sequential loop of _solve returns for the same data bases
SequentialResult == solve_loop(Work0, 0).result

AllPairsDone == \A p \in Pairs : pc[p] = "done"

\* ------------------------------------------------------------ LAM, step by step
\* the particle solver at rest: built and filled with 0, nothing called
ParticleAtRest ==
    /\ c_s_0_db = Field(0) /\ c_s_1_db = Field(0) /\ c_s__1_db = Field(0)
    /\ db_c_e = ConstArr(NumNodes, 0) /\ db_phi = ConstArr(NumNodes, 0)
    /\ db_T = ConstArr(NumNodes, 0)
    /\ c_e = Work0.c_e /\ phi = Work0.phi /\ T = Work0.T
    /\ u_0 = Work0.u_0 /\ u_1 = Work0.u_1
    /\ last = [op |-> "__init__", err |-> "none",
               pre |-> [c0 |-> Field(0), c1 |-> Field(0), c_1 |-> Field(0)], arg |-> <<>>]
    /\ calls = <<>>
    /\ ref = [prev |-> Field(0), prevprev |-> Field(0),
              snap0 |-> Field(0), snap_1 |-> Field(0), fill |-> <<>>]
    /\ run = <<>> /\ ops = 0
    /\ pc = [p \in Pairs |-> "idle"] /\ result = <<>>
    /\ order = <<>> /\ interleaved = FALSE

particleVars == <<dbVars, bcVars, workVars, histVars, pairVars>>

\* after LAM.setup with explicit coupling: the averages are new Functions
\* (zero); the surface concentration and the time step are the problem's
InitLAM ==
    /\ ParticleAtRest /\ SEIAtRest /\ WarehouseAtRest
    /\ \E lam \in LAMParams, ams \in Materials, dt \in 1..MaxDt :
          /\ LAM = lam /\ active_material = ams
          /\ c_s_r_average = ZeroFunctions /\ c_s_surf_1 = ZeroFunctions
          /\ delta_t = dt
          /\ delta_eps_s =
                eps_s_variation(lam, ams, hydrostatic_stress(ams, ZeroFunctions, ZeroFunctions), dt)

\* a time step of the problem: the averages, the surface concentration and
\* the time step take new values, and delta_eps_s, an expression of them, is
\* read at these values (approximation, update_eps_s)
LAMStep ==
    /\ \E f \in LAMFields :
          /\ c_s_r_average' = f.avg /\ c_s_surf_1' = f.surf /\ delta_t' = f.dt
          /\ delta_eps_s' =
                eps_s_variation(LAM, active_material,
                                hydrostatic_stress(active_material, f.avg, f.surf), f.dt)
    /\ UNCHANGED <<LAM, active_material, seiVars, particleVars, whVars>>

NextLAM == LAMStep

SpecLAM == InitLAM /\ [][NextLAM]_vars

\* the hydrostatic stress at the current fields
sigma_h == hydrostatic_stress(active_material, c_s_r_average, c_s_surf_1)

\* ------------------------------------------------------------ SEI, step by step
Orders == (0 - 2)..MaxOrder

\* the time-stepper handed to equations(): None (0) or a time step
TimeSteppers == {0, 1, MaxDt}

\* what a solve draws: the solvent modes wf's system gives (negative, zero
\* or positive at the first node) and the size of the exponential
SolveDraws ==
    {[a |-> 0 - 1, e |-> 1], [a |-> 0, e |-> 1], [a |-> 1, e |-> 1], [a |-> 1, e |-> MaxExp]}

InitSEI == ParticleAtRest /\ LAMAtRest /\ SEIAtRest /\ WarehouseAtRest

\* SEI(tag, order): the order is stored as given
SEIConstruct ==
    /\ sei.status = "absent"
    /\ \E k \in Orders :
          sei' = [sei EXCEPT !.status = "constructed", !.order = k]
    /\ sei_hist' = [sei_hist EXCEPT !.op = "__init__", !.err = "none"]
    /\ UNCHANGED <<SLagM, f_0, f_1, F_SEI, lamVars, particleVars, whVars>>

\* setup(problem): SEI and n_mat (the number of materials of the electrode)
\* are taken from the electrode, then the spectral model is built; the
\* problem creates the fields
SEISetup ==
    /\ sei.status = "constructed"
    /\ \E p \in SEIParams :
          LET r == SpectralLagrangeModel_EC(sei.order)
          IN /\ sei' = [sei EXCEPT !.status = IF r.err = "none" THEN "setup" ELSE "failed",
                                   !.n_mat = NumMats, !.SEI = p]
             /\ SLagM' = r.S
             /\ f_0' = IF r.err = "none" THEN ZeroFields(sei.order, NumMats) ELSE f_0
             /\ f_1' = IF r.err = "none" THEN ZeroFields(sei.order, NumMats) ELSE f_1
             /\ sei_hist' = [sei_hist EXCEPT !.op = "setup", !.err = r.err, !.built = r.S]
    /\ UNCHANGED <<F_SEI, lamVars, particleVars, whVars>>

SEIInitialGuess ==
    /\ sei.status = "setup"
    /\ LET r == sei_initial_guess(sei, f_0)
       IN /\ f_0' = r.f
          /\ sei_hist' = [sei_hist EXCEPT !.op = "initial_guess", !.err = r.err,
                                          !.guessed = (r.err = "none"), !.jpos = FALSE]
    /\ UNCHANGED <<sei, SLagM, f_1, F_SEI, lamVars, particleVars, whVars>>

SEIEquations ==
    /\ sei.status = "setup"
    /\ \E DT \in TimeSteppers :
          LET r == equations(sei, SLagM, 1, DT)
          IN /\ F_SEI' = IF r.err = "none" THEN r.F_SEI ELSE F_SEI
             /\ SLagM' = r.S
             /\ sei_hist' = [sei_hist EXCEPT !.op = "equations", !.err = r.err]
    /\ UNCHANGED <<sei, f_0, f_1, lamVars, particleVars, whVars>>

\* the problem solves the residuals for f_1
SEISolve ==
    /\ F_SEI.built
    /\ sei_hist.steps < MaxSteps
    /\ \E d \in SolveDraws :
          LET f == sei_solve(sei, F_SEI, f_0, ModeProfile(sei, d.a), d.e)
          IN /\ f_1' = f
             /\ sei_hist' = [sei_hist EXCEPT
                               !.op = "solve", !.err = "none",
                               !.steps = @ + 1,
                               !.jpos = @ \/ \E m \in 1..sei.n_mat, n \in Nodes :
                                                 f.j_sei[m][n] > 0]
    /\ UNCHANGED <<sei, SLagM, f_0, F_SEI, lamVars, particleVars, whVars>>

\* the problem commits the step: the solved fields become the previous ones
SEIAdvance ==
    /\ sei_hist.op = "solve"
    /\ f_0' = f_1
    /\ sei_hist' = [sei_hist EXCEPT !.op = "advance", !.err = "none"]
    /\ UNCHANGED <<sei, SLagM, f_1, F_SEI, lamVars, particleVars, whVars>>

NextSEI ==
    \/ SEIConstruct \/ SEISetup \/ SEIInitialGuess
    \/ SEIEquations \/ SEISolve \/ SEIAdvance

SpecSEI == InitSEI /\ [][NextSEI]_vars

\* ------------------------------------------------------------ Warehouse, call by call
\* after Warehouse(save_path, problem, delay)
InitWarehouse ==
    /\ ParticleAtRest /\ DegradationAtRest
    /\ \E p \in BOOLEAN, d \in Delays : wh = Warehouse(p, d)
    /\ wh_out = NothingStored
    /\ wh_hist = NoCalls

\* set_delay(delay)
SetDelay ==
    /\ wh_hist.sets < MaxSets
    /\ \E d \in Delays : wh' = [wh EXCEPT !.delay = d]
    /\ wh_hist' = [wh_hist EXCEPT !.regular = @ /\ wh_hist.calls = 0,
                                   !.sets = @ + 1]
    /\ UNCHANGED <<wh_out, particleVars, degVars>>

\* internal_variables(fields): field_vars is made (empty without a path)
InternalVariables ==
    /\ wh' = [wh EXCEPT !.fields_declared = TRUE]
    /\ UNCHANGED <<wh_out, wh_hist, particleVars, degVars>>

\* global_variables(params): the arrays are made anew, empty
GlobalVariables ==
    /\ wh' = [wh EXCEPT !.globals_declared = TRUE]
    /\ wh_out' = [wh_out EXCEPT !.time = <<>>]
    /\ wh_hist' = [wh_hist EXCEPT !.reset = TRUE]
    /\ UNCHANGED <<particleVars, degVars>>

\* store(time, force): the time of a simulation does not go back
Store ==
    /\ wh_hist.calls < MaxCalls
    /\ \E time \in Times, force \in BOOLEAN :
          /\ time >= wh_hist.time
          /\ LET r == store(wh, wh_out, time, force)
             IN /\ wh' = r.wh
                /\ wh_out' = r.out
                /\ wh_hist' = [calls |-> wh_hist.calls + 1, time |-> time,
                               prev |-> wh_hist.time, force |-> force,
                               err |-> r.err, wrote |-> r.wrote,
                               pre_len |-> Len(wh_out.time),
                               regular |-> wh_hist.regular /\ r.err = "none",
                               unforced |-> wh_hist.unforced /\ ~force,
                               increasing |-> wh_hist.increasing /\ time > wh_hist.time,
                               reset |-> FALSE,
                               sets |-> wh_hist.sets]
    /\ UNCHANGED <<particleVars, degVars>>

NextWarehouse == SetDelay \/ InternalVariables \/ GlobalVariables \/ Store

SpecWarehouse == InitWarehouse /\ [][NextWarehouse]_vars

\* ============================================================ claims
StartedRun == run # <<>> /\ run[1] = "initial_guess"
FirstStepSolved == run = <<"initial_guess", "solve">>
SecondStepSolved == run = <<"initial_guess", "solve", "advance_problem", "solve">>

\* C1: advance_problem() rotates the generations by value: afterwards the
\* previous generation is the current one of before the call, the
\* previous-previous generation is the previous one of before the call, and
\* the current generation is unchanged, at every (node, material, dof).
C1_AdvanceRotates ==
    last.op = "advance_problem" =>
        \A n \in Nodes, m \in Mats, d \in Dofs :
            /\ c_s_0_db[n][m][d] = last.pre.c1[n][m][d]
            /\ c_s__1_db[n][m][d] = last.pre.c0[n][m][d]
            /\ c_s_1_db[n][m][d] = last.pre.c1[n][m][d]

\* an advance after an accepted solve whose result differs from the previous
\* generation
C1_Witness ==
    /\ run = <<"initial_guess", "solve", "advance_problem">>
    /\ last.op = "advance_problem"
    /\ last.pre.c1 # last.pre.c0
    /\ c_s__1_db # c_s_0_db

\* C2: microscale_update() and solve(), failed or not, leave the previous and
\* the previous-previous generation as the last advance_problem() or
\* initial_guess() left them; only the current generation takes new state.
C2_RejectedStepKeepsCommitted ==
    /\ c_s_0_db = ref.snap0
    /\ c_s__1_db = ref.snap_1
    /\ last.op \in {"solve", "microscale_update"} =>
          /\ c_s_0_db = last.pre.c0
          /\ c_s__1_db = last.pre.c_1

\* two solves with no advance between them (the first step was rejected),
\* both of which changed the current generation
C2_Witness ==
    /\ run = <<"initial_guess", "solve", "solve">>
    /\ last.op = "solve"
    /\ c_s_1_db # last.pre.c1
    /\ c_s_1_db # c_s_0_db

\* C3: solve() publishes the current generation atomically.  A solver call
\* that fails ends solve() with that error and the current generation is what
\* it was before the call; when solve() returns, every pair's slot holds the
\* result of that pair's solver call, which is what c_s_surf() reads.
C3_SolveAtomic ==
    last.op = "solve" =>
        /\ (\E k \in 1..Len(calls) : ~calls[k].ok) => last.err = "RuntimeError"
        /\ last.err # "none" => c_s_1_db = last.pre.c1
        /\ last.err = "none" =>
              \A n \in Nodes, m \in Mats :
                  \E k \in 1..Len(calls) :
                      /\ calls[k].node = n /\ calls[k].mat = m /\ calls[k].ok
                      /\ c_s_1_db[n][m] = calls[k].out
                      /\ c_s_surf[n][m] = calls[k].out[SurfDof]

\* a solve() that failed after a pair had been solved, that pair's result
\* differing from what the current generation holds for it
C3_Witness ==
    /\ last.op = "solve" /\ last.err = "RuntimeError"
    /\ Len(calls) >= 2
    /\ calls[1].ok
    /\ calls[1].out # c_s_1_db[calls[1].node][calls[1].mat]

C6_InitialGuessFills ==
    last.op = "initial_guess" =>
        /\ (/\ Len(last.arg) = NumMats
            /\ \A i \in Mats : last.arg[i].kind \in {"float", "Constant"}) =>
              /\ last.err = "none"
              /\ \A n \in Nodes, m \in Mats, d \in Dofs :
                    /\ c_s_0_db[n][m][d] = last.arg[m].val
                    /\ c_s_1_db[n][m][d] = last.arg[m].val
                    /\ c_s__1_db[n][m][d] = last.arg[m].val
        /\ (last.arg # <<>> /\ Len(last.arg) # NumMats) => last.err = "AssertionError"

\* an accepted list whose values differ between materials, filling generations
\* that differed from one another before the call
C6_Witness ==
    /\ last.op = "initial_guess" /\ last.err = "none"
    /\ Len(last.arg) = NumMats
    /\ last.arg[1].val # last.arg[NumMats].val
    /\ last.pre.c1 # last.pre.c0
    /\ last.pre.c0 # last.pre.c_1

\* C7: broadcast arrays of a length other than the number of macro-nodes are
\* rejected by microscale_update(): after an accepted call each stored array
\* has one entry per macro-node, and no solve() ends in an index error.
C7_MismatchRejectedAtUpdate ==
    /\ (last.op = "microscale_update" /\ last.err = "none") =>
          /\ Len(db_c_e) = NumNodes
          /\ Len(db_phi) = NumNodes
          /\ Len(db_T) = NumNodes
    /\ last.op = "solve" => last.err # "IndexError"

\* C8, as stated: in a run from initial_guess() with solve() then
\* advance_problem() per timestep, get_time_filter_error(nu, tau) is 0 in the
\* first and in the second timestep, for every nu and tau.
C8_ZeroInFirstTwoSteps ==
    (FirstStepSolved \/ SecondStepSolved) =>
        \A nu \in Nus, tau \in Taus : get_time_filter_error(nu, tau).sq = 0

\* C8, amended: there is no insufficient-history case.  Before the first
\* solve the three generations are equal and the error is 0 for every nu and
\* tau; in the first timestep it is nu/(1+tau) times the norm of the
\* difference between the current generation and the initial fill.
C8_ZeroOnlyWhileUnchanged ==
    /\ run = <<"initial_guess">> =>
          \A nu \in Nus, tau \in Taus :
              get_time_filter_error(nu, tau) = [sq |-> 0, den |-> 1 + tau]
    /\ FirstStepSolved =>
          \A nu \in Nus, tau \in Taus :
              get_time_filter_error(nu, tau) =
                 [sq |-> nu * nu * SumSq([e \in Entries |->
                            c_s_1_db[e[1]][e[2]][e[3]] - ref.prev[e[1]][e[2]][e[3]]],
                            Entries),
                  den |-> 1 + tau]

\* the first timestep solved, with a non-zero error
C8_Witness ==
    /\ FirstStepSolved
    /\ get_time_filter_error(1, 1).sq # 0

\* C9, as stated: the error is the norm of
\* nu*(previous/(1+tau) - current + tau*prevprev/(1+tau)).
C9_PreviousWeighted ==
    StartedRun =>
        \A nu \in Nus, tau \in Taus :
            get_time_filter_error(nu, tau) =
               [sq |-> SumSq([e \in Entries |->
                          nu * (c_s_0_db[e[1]][e[2]][e[3]]
                                - (1 + tau) * c_s_1_db[e[1]][e[2]][e[3]]
                                + tau * c_s__1_db[e[1]][e[2]][e[3]])], Entries),
                den |-> 1 + tau]

\* C9, amended: the error is the norm of
\* nu*(current/(1+tau) - previous + tau*prevprev/(1+tau)), where current is
\* what the last solve() returned, previous the field committed by the last
\* advance_problem() and prevprev the one committed by the advance before it
\* (the initial fill when there was none).
C9_CurrentWeighted ==
    StartedRun =>
        \A nu \in Nus, tau \in Taus :
            get_time_filter_error(nu, tau) =
               [sq |-> SumSq([e \in Entries |->
                          nu * (c_s_1_db[e[1]][e[2]][e[3]]
                                - (1 + tau) * ref.prev[e[1]][e[2]][e[3]]
                                + tau * ref.prevprev[e[1]][e[2]][e[3]])], Entries),
                den |-> 1 + tau]

\* the second timestep solved, the three generations pairwise different
C9_Witness ==
    /\ SecondStepSolved
    /\ c_s_1_db # c_s_0_db /\ c_s_0_db # c_s__1_db /\ c_s_1_db # c_s__1_db
    /\ get_time_filter_error(1, 1).sq # 0

\* C10: after initial_guess() filled every node and material with one
\* concentration c0, passed in the list or taken from the materials'
\* defaults, get_average_c_s(increment=True) is 0 at every (node, material).
C10_IncrementZeroAfterFill ==
    (/\ last.op = "initial_guess" /\ last.err = "none"
     /\ \A i, j \in 1..Len(last.arg) : last.arg[i].val = last.arg[j].val) =>
        \A n \in Nodes, m \in Mats : get_average_c_s(TRUE)[n][m].num = 0

\* the r^2-weighted integral of the P1 field with nodal values c over the
\* normalised radius, times 12*N_s^3: the integral of r^2 times the hat
\* function of dof d is R2Weight(d)/(12*N_s^3)
R2Weight(d) ==
    IF d = 1 THEN 1
    ELSE IF d = SurfDof THEN 6 * N_s * N_s - 4 * N_s + 1
    ELSE 12 * (d - 1) * (d - 1) + 2

R2Integral(c) == SumTo([d \in CsDofs |-> R2Weight(d) * c[d]], N_s + 1)

\* C11: get_average_c_s() is, per node and material, the volumetric average
\* of the current generation: the r^2-weighted integral over the
\* concentration dofs divided by the integral of r^2 (one third), not the
\* arithmetic mean of the stored entries.
C11_VolumetricAverage ==
    StartedRun =>
        \A n \in Nodes, m \in Mats :
            get_average_c_s(FALSE)[n][m].num * (4 * N_s * N_s * N_s)
                = R2Integral(c_s_1_db[n][m]) * get_average_c_s(FALSE)[n][m].den

\* C12: in a run from an accepted initial_guess() with no solve() yet
\* (whatever microscale_update(), advance_problem() or failed solve() came
\* between), c_s_surf() is, at every (node, material), the value
\* initial_guess() filled that material with.
C12_SurfaceBeforeSolve ==
    (StartedRun /\ \A k \in 1..Len(run) : run[k] # "solve") =>
        \A n \in Nodes, m \in Mats : c_s_surf[n][m] = ref.fill[m]

\* an accepted initial_guess() with values that differ between materials,
\* given after a solve had left the current generation different from them
C12_Witness ==
    /\ last.op = "initial_guess" /\ last.err = "none"
    /\ run = <<"initial_guess">>
    /\ ref.fill[1] # ref.fill[NumMats]
    /\ \E n \in Nodes, m \in Mats : last.pre.c1[n][m][SurfDof] # ref.fill[m]
    /\ last.pre.c1 # last.pre.c0

AccessorOps == {"c_s_surf", "get_average_c_s", "get_time_filter_error", "Li_amount"}

\* C17: in a run from an accepted initial_guess(), a call of c_s_surf,
\* get_average_c_s, get_time_filter_error or Li_amount changes none of the three generations, none of the broadcast
\* arrays and no working state of the solver (the Constants, u_0, u_1).
C17_AccessorsPure ==
    [][(StartedRun /\ last'.op \in AccessorOps) =>
          UNCHANGED <<dbVars, bcVars, workVars>>]_vars

\* C19: a solve() in which a solver call yields a negative concentration
\* ends in an error and leaves the current generation as it was; it never
\* returns with a negative value committed.
C19_NegativeReported ==
    (/\ last.op = "solve"
     /\ \E k \in 1..Len(calls) : \E d \in CsDofs : calls[k].ok /\ calls[k].out[d] < 0) =>
        /\ last.err # "none"
        /\ c_s_1_db = last.pre.c1

\* C20: an initial_guess() that ends in an error has modified none of the
\* three generations.
C20_RejectedGuessKeepsGenerations ==
    (last.op = "initial_guess" /\ last.err # "none") =>
        /\ c_s_0_db = last.pre.c0
        /\ c_s_1_db = last.pre.c1
        /\ c_s__1_db = last.pre.c_1

\* C13: with the 'stress' model, at every (material, node): where the
\* hydrostatic stress is <= 0, delta_eps_s is exactly 0, whatever delta_t,
\* beta, the critical stress and the exponent m (m = 0 included) are; where
\* it is > 0, delta_eps_s = -delta_t*beta*(sigma_h/critical_stress)^m.
C13_SignPolicy ==
    LAM.model = "stress" =>
        \A i \in DOMAIN active_material, n \in Nodes :
            /\ ~IsPositive(sigma_h[i][n]) => delta_eps_s[i][n].num = 0
            /\ IsPositive(sigma_h[i][n]) =>
                  delta_eps_s[i][n] =
                     Frac(0 - delta_t * LAM.beta * Pow(sigma_h[i][n].num, LAM.m),
                          Pow(sigma_h[i][n].den * active_material[i].critical_stress, LAM.m))

\* the last call was a solve of residuals built with a time-stepper
DynamicSolved == sei_hist.op = "solve" /\ F_SEI.DT # 0
\* the fraction a is >= the fraction b, both over positive denominators
FracGeq(a, b) == a.num * b.den >= b.num * a.den
SeiPoints == (1..sei.n_mat) \X Nodes

\* C14, as stated: after a timestep is solved, wherever j_sei is strictly
\* positive the thickness delta_1 is >= the previous thickness delta_0.
C14_PositiveCurrentGrows ==
    DynamicSolved =>
        \A q \in SeiPoints :
            f_1.j_sei[q[1]][q[2]] > 0 =>
                FracGeq(f_1.delta_sei[q[1]][q[2]], f_0.delta_sei[q[1]][q[2]])

\* C14, amended: the growth law of the code is
\* d(delta)/dt = -j_sei*M/(2*F*rho), and the j_SEI residual makes j_sei <= 0
\* wherever solvent mode 0 is >= 0.  After a timestep is solved, at every
\* (material, node): delta_1 = delta_0 - DT*j_sei*M/(2*F*rho); where
\* j_sei <= 0, delta_1 >= delta_0; where j_sei > 0, delta_1 < delta_0.  From
\* initial_guess() on, while no solved j_sei was > 0, the thickness of both
\* generations is >= the initial thickness delta0 >= 0.
C14_NegativeCurrentGrows ==
    /\ DynamicSolved =>
          \A q \in SeiPoints :
              LET j == f_1.j_sei[q[1]][q[2]]
                  d1 == f_1.delta_sei[q[1]][q[2]]
                  d0 == f_0.delta_sei[q[1]][q[2]]
              IN /\ f_1.c_EC[q[1]][1][q[2]] >= 0 => j <= 0
                 /\ j <= 0 => FracGeq(d1, d0)
                 /\ j > 0 => ~FracGeq(d1, d0)
                 /\ d1.den = 2 * F_SEI.F * sei.SEI.rho
                 /\ d1.num = d0.num - F_SEI.DT * j * sei.SEI.M
    /\ (sei_hist.guessed /\ ~sei_hist.jpos /\ sei_hist.op \in {"solve", "advance"}) =>
          \A q \in SeiPoints :
              /\ FracGeq(f_0.delta_sei[q[1]][q[2]], Frac(sei.SEI.delta0, 1))
              /\ FracGeq(f_1.delta_sei[q[1]][q[2]], Frac(sei.SEI.delta0, 1))
              /\ f_1.delta_sei[q[1]][q[2]].num >= 0

\* the second timestep solved after initial_guess(), every j_sei solved so far
\* <= 0, a point where the film grew in both steps
C14_Witness ==
    /\ DynamicSolved /\ sei_hist.guessed /\ ~sei_hist.jpos /\ sei_hist.steps = 2
    /\ \E q \in SeiPoints :
          /\ f_1.j_sei[q[1]][q[2]] < 0
          /\ ~FracGeq(f_0.delta_sei[q[1]][q[2]], f_1.delta_sei[q[1]][q[2]])
          /\ ~FracGeq(Frac(sei.SEI.delta0, 1), f_0.delta_sei[q[1]][q[2]])

\* C15: for every order k >= 0 the spectral model holds D, K1 and K2 with
\* k+1 rows of k entries and P with k+1 entries, and whatever equations()
\* (wf, wf_0) ran since, they are the matrices build_matrix made.
C15_OperatorShapes ==
    (sei.status = "setup" /\ sei.order >= 0) =>
        /\ \A X \in {SLagM.D, SLagM.K1, SLagM.K2} :
              /\ Len(X) = sei.order + 1
              /\ \A r \in 1..Len(X) : Len(X[r]) = sei.order
        /\ Len(SLagM.P) = sei.order + 1
        /\ SLagM.D = sei_hist.built.D /\ SLagM.K1 = sei_hist.built.K1
        /\ SLagM.K2 = sei_hist.built.K2 /\ SLagM.P = sei_hist.built.P

\* the largest order, after equations() with a time-stepper ran wf
C15_Witness ==
    /\ sei.status = "setup" /\ sei.order = MaxOrder
    /\ SLagM.K.set
    /\ sei_hist.op = "solve" /\ F_SEI.c_EC = "wf"

\* C16: an order < 0 is rejected when the object is constructed, and no
\* later call returns normally on an object with an order < 0.
C16_NegativeOrderRejected ==
    (sei.status # "absent" /\ sei.order < 0) => sei_hist.err # "none"

\* C18: residuals built without a time-stepper (DT = None) are solved by
\* delta_1 = delta_0 and every solvent mode of f_1 equal to that of f_0, for
\* every material and node; residuals built with a time-stepper are the
\* growth residual and wf.
C18_FirstStepIdentity ==
    /\ (sei_hist.op = "solve" /\ F_SEI.DT = 0) =>
          /\ f_1.delta_sei = f_0.delta_sei
          /\ f_1.c_EC = f_0.c_EC
    /\ F_SEI.built =>
          /\ F_SEI.DT = 0 => (F_SEI.delta = "identity" /\ F_SEI.c_EC = "wf_0")
          /\ F_SEI.DT # 0 => (F_SEI.delta = "growth" /\ F_SEI.c_EC = "wf")

\* a first step solved after initial_guess(), with a current that the growth
\* law would have turned into a change of thickness
C18_Witness ==
    /\ sei_hist.op = "solve" /\ F_SEI.DT = 0 /\ sei_hist.guessed
    /\ sei.SEI.delta0 > 0
    /\ \E q \in SeiPoints : f_1.j_sei[q[1]][q[2]] < 0

\* C21: with a save path and an integer delay d >= 1, after n store() calls
\* without force the last call wrote the internal variables exactly if n is
\* a multiple of d, n \div d writes (each after a post-processing) were made
\* in all, the counter is n mod d (0 after a write, never d or more), and
\* the last call appended its time to the global arrays.
C21_EveryDthCall ==
    (/\ wh.save_path /\ wh.delay.kind = "int" /\ wh.delay.n >= 1
     /\ wh_hist.regular /\ wh_hist.unforced /\ wh_hist.calls > 0) =>
        /\ wh_hist.wrote <=> (wh_hist.calls % wh.delay.n = 0)
        /\ Len(wh_out.internals) = wh_hist.calls \div wh.delay.n
        /\ wh_out.post = Len(wh_out.internals)
        /\ wh_hist.wrote => wh_out.internals[Len(wh_out.internals)] = wh_hist.time
        /\ wh.counter = wh_hist.calls % wh.delay.n
        /\ wh.counter \in 0..(wh.delay.n - 1)
        /\ ~wh_hist.reset =>
              /\ Len(wh_out.time) = wh_hist.pre_len + 1
              /\ wh_out.time[Len(wh_out.time)] = wh_hist.time

\* the largest delay, one call after the write of the d-th call
C21_Witness ==
    /\ wh.save_path /\ wh.delay.kind = "int" /\ wh.delay.n = MaxDelay
    /\ wh_hist.regular /\ wh_hist.unforced
    /\ wh_hist.calls = MaxDelay + 1 /\ ~wh_hist.wrote
    /\ Len(wh_out.internals) = 1 /\ wh.counter = 1
    /\ Len(wh_out.time) = wh_hist.calls

\* C22: with a save path and a list of storage times, in a run of store()
\* calls with strictly increasing times, a call writes the internal
\* variables exactly if it is the first call whose time is >= some storage
\* time k (every earlier call, if any, had a time < k).
C22_WrittenWhenFirstToReach ==
    (/\ wh.save_path /\ wh.delay.kind = "list"
     /\ wh_hist.regular /\ wh_hist.increasing /\ wh_hist.calls > 0) =>
        (wh_hist.wrote <=>
            \E k \in wh.delay.times : wh_hist.time >= k /\ wh_hist.prev < k)

\* C23: with a save path, a store() call with force = True that returned
\* wrote the internal variables, whatever the delay and the counter.
C23_ForceAlwaysWrites ==
    (wh.save_path /\ wh_hist.calls > 0 /\ wh_hist.force /\ wh_hist.err = "none") =>
        wh_hist.wrote

====
